---- MODULE Spec2Model ----
(***************************************************************************)
(* Model of app.py, the genomic-coordinates-to-BED converter.              *)
(*                                                                         *)
(* Python strings are sequences of one-character strings, so that          *)
(* strip(), startswith(), split(), re.match(), int() and the f-string      *)
(* formatting are computed character by character, as the code does.       *)
(* Python's None is the empty tuple; a result triple is a 3-tuple.         *)
(***************************************************************************)
EXTENDS Integers, Sequences, FiniteSets, TLC

VARIABLES
    input_assembly,    \* sidebar selectbox "Input Assembly"
    output_assembly,   \* sidebar selectbox "Output Assembly"
    perform_liftover,  \* sidebar checkbox "Perform LiftOver"
    input_text,        \* the text area's content
    pc,                \* position of the "Convert to BED" handler
    lines,             \* input_text.strip().split('\n')
    idx,               \* enumerate(lines, 1): number of the line processed next
    bed_entries,       \* list of BED lines
    failed_lines,      \* list of parse-failure reports
    liftover_failed,   \* list of liftover-failure reports
    outcome,           \* history: the branch each processed line left the loop body by
    calls,             \* history: the calls of liftover_pyliftover, with their results
    pline,             \* argument of a stand-alone call of parse_position
    pnorm,             \* its local `line` after the prefix step (line 29)
    presult,           \* its return value
    ppc,               \* "in" before the call, "out" after it
    call_args,         \* arguments of a stand-alone call of liftover_pyliftover
    call_response,     \* what the remote call of that call comes to
    call_result,       \* its return value
    cpc                \* "in" before the call, "out" after it

vars == <<input_assembly, output_assembly, perform_liftover, input_text, pc,
          lines, idx, bed_entries, failed_lines, liftover_failed, outcome,
          calls, pline, pnorm, presult, ppc,
          call_args, call_response, call_result, cpc>>

batchVars == <<input_assembly, output_assembly, perform_liftover, input_text, pc,
               lines, idx, bed_entries, failed_lines, liftover_failed, outcome,
               calls>>

parseVars == <<pline, pnorm, presult, ppc>>

clientVars == <<call_args, call_response, call_result, cpc>>

----------------------------------------------------------------------------
(* Bounds *)

\* longest core of a line handed to a stand-alone parse_position call
MaxLen == 5

\* largest number of raw lines typed into the text area
MaxLines == 3

----------------------------------------------------------------------------
(* Python values and string helpers *)

None == <<>>

Range(f) == { f[i] : i \in DOMAIN f }

Whitespace == {" ", "\t", "\n"}

Digit == {"0", "1", "2", "3", "4", "5", "6", "7", "8", "9"}

\* the character class [\dXYM]
ChromChar == Digit \cup {"X", "Y", "M"}

chr == <<"c", "h", "r">>

\* s.startswith(p)
startswith(s, p) == Len(p) <= Len(s) /\ SubSeq(s, 1, Len(p)) = p

RECURSIVE lstrip(_)
lstrip(s) ==
    IF s # <<>> /\ Head(s) \in Whitespace THEN lstrip(Tail(s)) ELSE s

RECURSIVE rstrip(_)
rstrip(s) ==
    IF s # <<>> /\ s[Len(s)] \in Whitespace
    THEN rstrip(SubSeq(s, 1, Len(s) - 1))
    ELSE s

\* s.strip()
strip(s) == rstrip(lstrip(s))

DigitVal(c) ==
    CASE c = "0" -> 0 [] c = "1" -> 1 [] c = "2" -> 2 [] c = "3" -> 3
      [] c = "4" -> 4 [] c = "5" -> 5 [] c = "6" -> 6 [] c = "7" -> 7
      [] c = "8" -> 8 [] c = "9" -> 9

DigitChar(n) ==
    CASE n = 0 -> "0" [] n = 1 -> "1" [] n = 2 -> "2" [] n = 3 -> "3"
      [] n = 4 -> "4" [] n = 5 -> "5" [] n = 6 -> "6" [] n = 7 -> "7"
      [] n = 8 -> "8" [] n = 9 -> "9"

\* int(ds) of a non-empty digit string (Python integers are unbounded)
RECURSIVE int(_)
int(ds) ==
    IF ds = <<>> THEN 0
    ELSE 10 * int(SubSeq(ds, 1, Len(ds) - 1)) + DigitVal(ds[Len(ds)])

\* str(n) of a non-negative integer
RECURSIVE IntToStr(_)
IntToStr(n) ==
    IF n < 10 THEN <<DigitChar(n)>>
    ELSE IntToStr(n \div 10) \o <<DigitChar(n % 10)>>

\* length of the longest run of characters of `class` in s from position i
RECURSIVE Span(_, _, _)
Span(s, i, class) ==
    IF i <= Len(s) /\ s[i] \in class THEN 1 + Span(s, i + 1, class) ELSE 0

----------------------------------------------------------------------------
(* parse_position *)

(* re.match anchors the pattern at the start of the string and not at its  *)
(* end.  Neither ':' nor '-' belongs to a character class of the patterns, *)
(* so the greedy runs are the only way to match and no backtracking can    *)
(* find another match.  The value is the tuple of groups, or None.         *)

\* re.match(r'(chr[\dXYM]+):(\d+)-(\d+)', line)
pattern1(line) ==
    IF ~startswith(line, chr) THEN None
    ELSE
      LET n1 == Span(line, 4, ChromChar)
          colon == 4 + n1
          n2 == Span(line, colon + 1, Digit)
          dash == colon + 1 + n2
          n3 == Span(line, dash + 1, Digit)
      IN  IF /\ n1 > 0
             /\ colon <= Len(line) /\ line[colon] = ":"
             /\ n2 > 0
             /\ dash <= Len(line) /\ line[dash] = "-"
             /\ n3 > 0
          THEN << SubSeq(line, 1, colon - 1),
                  SubSeq(line, colon + 1, dash - 1),
                  SubSeq(line, dash + 1, dash + n3) >>
          ELSE None

\* re.match(r'(chr[\dXYM]+):(\d+)', line)
pattern2(line) ==
    IF ~startswith(line, chr) THEN None
    ELSE
      LET n1 == Span(line, 4, ChromChar)
          colon == 4 + n1
          n2 == Span(line, colon + 1, Digit)
      IN  IF /\ n1 > 0
             /\ colon <= Len(line) /\ line[colon] = ":"
             /\ n2 > 0
          THEN << SubSeq(line, 1, colon - 1),
                  SubSeq(line, colon + 1, colon + n2) >>
          ELSE None

\* mutant: the prefix is added without looking at the line
AddPrefixAlways(line) == chr \o line

\* lines 28-29: add 'chr' prefix if missing
AddPrefix(line) ==
    IF ~startswith(line, chr) THEN chr \o line ELSE line

\* mutant: the single-position form yields an empty interval
SinglePositionEmpty(m) == << m[1], int(m[2]), int(m[2]) >>

\* lines 42-44: the single-position form
SinglePosition(m) == << m[1], int(m[2]), int(m[2]) + 1 >>

parse_position(raw) ==
    LET stripped == strip(raw)
    IN  IF stripped = <<>> THEN None
        ELSE
          LET line == AddPrefix(stripped)
              m1 == pattern1(line)
              m2 == pattern2(line)
          IN  IF m1 # None THEN << m1[1], int(m1[2]), int(m1[3]) >>
              ELSE IF m2 # None THEN SinglePosition(m2)
              ELSE None

----------------------------------------------------------------------------
(* Stand-alone calls of parse_position *)

RECURSIVE StringsUpTo(_, _)
StringsUpTo(alphabet, n) ==
    IF n = 0 THEN { <<>> }
    ELSE LET shorter == StringsUpTo(alphabet, n - 1)
         IN  shorter \cup { Append(s, c) : s \in shorter, c \in alphabet }

CoreAlphabet == {"1", "2", ":", "-", "a"}

Leads == { <<>>, <<" ">>, chr, <<" ">> \o chr, chr \o <<"X">> }

Trails == { <<>>, <<" ">> }

ParseLines ==
    { lead \o core \o trail :
        lead \in Leads, core \in StringsUpTo(CoreAlphabet, MaxLen), trail \in Trails }

IdleBatch ==
    /\ input_assembly = "hg19"
    /\ output_assembly = "hg38"
    /\ perform_liftover = TRUE
    /\ input_text = <<>>
    /\ pc = "idle"
    /\ lines = <<>>
    /\ idx = 1
    /\ bed_entries = <<>>
    /\ failed_lines = <<>>
    /\ liftover_failed = <<>>
    /\ outcome = <<>>
    /\ calls = <<>>

IdleClient ==
    /\ call_args = None
    /\ call_response = None
    /\ call_result = None
    /\ cpc = "unused"

IdleParse ==
    /\ pline = <<>>
    /\ pnorm = <<>>
    /\ presult = None
    /\ ppc = "unused"

ParseInit ==
    /\ IdleBatch
    /\ pline \in ParseLines
    /\ pnorm = <<>>
    /\ presult = None
    /\ ppc = "in"
    /\ IdleClient

Parse ==
    /\ ppc = "in"
    /\ presult' = parse_position(pline)
    /\ pnorm' = IF strip(pline) = <<>> THEN <<>> ELSE AddPrefix(strip(pline))
    /\ ppc' = "out"
    /\ UNCHANGED pline
    /\ UNCHANGED batchVars
    /\ UNCHANGED clientVars

ParseNext == Parse

ParseSpec == ParseInit /\ [][ParseNext]_vars

----------------------------------------------------------------------------
(* Values that are an int or None, and the f-string formatting *)

\* A coordinate held by the handler is a Python int, or whatever the JSON
\* body of the service carried: an int is [int |-> n], JSON null is JNull.
JInt(n) == [int |-> n]

JNull == [null |-> TRUE]

\* str(v), as an f-string formats it
PyStr(v) == IF "int" \in DOMAIN v THEN IntToStr(v.int) ELSE <<"N", "o", "n", "e">>

\* line 111: f"Line {idx}: {line}"
FailedEntry(i, line) ==
    <<"L", "i", "n", "e", " ">> \o IntToStr(i) \o <<":", " ">> \o line

\* line 122: f"Line {idx}: {line} ({chrom}:{start}-{end})"
LiftoverFailedEntry(i, line, chrom, start, end) ==
    FailedEntry(i, line) \o <<" ", "(">> \o chrom \o <<":">> \o PyStr(start)
        \o <<"-">> \o PyStr(end) \o <<")">>

\* line 125: f"{chrom}\t{start}\t{end}"
BedEntry(chrom, start, end) ==
    chrom \o <<"\t">> \o PyStr(start) \o <<"\t">> \o PyStr(end)

\* sep.join(parts)
RECURSIVE join(_, _)
join(parts, sep) ==
    IF parts = <<>> THEN <<>>
    ELSE IF Len(parts) = 1 THEN parts[1]
    ELSE parts[1] \o <<sep>> \o join(Tail(parts), sep)

\* s.split(sep) for a one-character separator
RECURSIVE split(_, _)
split(s, sep) ==
    LET n == Span(s, 1, { c \in Range(s) : c # sep })
    IN  IF n = Len(s) THEN << s >>
        ELSE << SubSeq(s, 1, n) >> \o split(SubSeq(s, n + 2, Len(s)), sep)

\* s.replace(old, '')
RECURSIVE remove(_, _)
remove(s, old) ==
    IF s = <<>> THEN <<>>
    ELSE IF startswith(s, old) THEN remove(SubSeq(s, Len(old) + 1, Len(s)), old)
    ELSE << Head(s) >> \o remove(Tail(s), old)

----------------------------------------------------------------------------
(* liftover_pyliftover *)

\* lines 55-61: assembly_map.get(name, name)
assembly_map(name) ==
    CASE name = "hg19" -> "GRCh37"
      [] name = "hg38" -> "GRCh38"
      [] OTHER -> name

\* lines 64-66: what the request URL carries
Request(chrom, start, end, from_assembly, to_assembly) ==
    [ from_asm |-> assembly_map(from_assembly),
      to_asm   |-> assembly_map(to_assembly),
      region   |-> << remove(chrom, chr), start, end >> ]

(* What the remote call can come to.  kind "http" is an answer of the      *)
(* service, with its status code, whether its body is JSON at all, and the *)
(* decoded body; the other kinds are exceptions requests.get raises.       *)
Mapping1 == [ seq_region_name |-> <<"1">>, start |-> JInt(8), end |-> JInt(9) ]

Mapping2 == [ seq_region_name |-> <<"X">>, start |-> JInt(4), end |-> JInt(6) ]

MappingNoStart == [ seq_region_name |-> <<"1">>, end |-> JInt(9) ]

MappingNull == [ seq_region_name |-> <<"1">>, start |-> JNull, end |-> JNull ]

Http(status, json_ok, data) ==
    [ kind |-> "http", status_code |-> status, json_ok |-> json_ok, data |-> data ]

Failed(kind) ==
    [ kind |-> kind, status_code |-> 0, json_ok |-> FALSE, data |-> [error |-> kind] ]

Bodies ==
    { [ error |-> "no mapping" ],
      [ mappings |-> <<>> ],
      [ mappings |-> << [ original |-> Mapping1 ] >> ],
      [ mappings |-> << [ mapped |-> MappingNoStart ] >> ],
      [ mappings |-> << [ mapped |-> MappingNull ] >> ],
      [ mappings |-> << [ mapped |-> Mapping1 ] >> ],
      [ mappings |-> << [ mapped |-> Mapping1 ], [ mapped |-> Mapping2 ] >> ] }

Responses ==
    { Failed("timeout"), Failed("network error") }
      \cup { Http(200, FALSE, [ error |-> "not json" ]) }
      \cup { Http(200, TRUE, b) : b \in Bodies }
      \cup { Http(404, TRUE, [ error |-> "no mapping" ]),
             Http(500, TRUE, [ mappings |-> << [ mapped |-> Mapping1 ] >> ]) }

\* the marker of an exception raised inside the try block
Raised == << "raised" >>

\* mutant: the status code is not looked at
StatusOkAlways(response) == TRUE

\* line 72: response.status_code == 200
StatusOk(response) == response.status_code = 200

\* lines 73-80, with response.json() and every subscript raising as Python does
ReadMapping(response) ==
    IF ~response.json_ok THEN Raised
    ELSE
      LET data == response.data
      IN  IF "mappings" \in DOMAIN data /\ Len(data.mappings) > 0
          THEN
            LET first == data.mappings[1]
            IN  IF "mapped" \notin DOMAIN first THEN Raised
                ELSE
                  LET mapped == first.mapped
                  IN  IF ~({"seq_region_name", "start", "end"} \subseteq DOMAIN mapped)
                      THEN Raised
                      ELSE << chr \o mapped.seq_region_name, mapped.start, mapped.end >>
          ELSE None

\* lines 51-82: the body of the try block.  The request is sent (lines 60-70)
\* and `response` is what comes of it; nothing of the request is read again.
liftover_try(chrom, start, end, from_assembly, to_assembly, response) ==
    IF response.kind # "http" THEN Raised
    ELSE IF StatusOk(response) THEN ReadMapping(response)
    ELSE None

\* mutant: no except clause, the exception leaves the function
liftover_uncaught(chrom, start, end, from_assembly, to_assembly, response) ==
    liftover_try(chrom, start, end, from_assembly, to_assembly, response)

\* lines 50, 83-85: except Exception: st.error(...); return None
liftover_pyliftover(chrom, start, end, from_assembly, to_assembly, response) ==
    LET r == liftover_try(chrom, start, end, from_assembly, to_assembly, response)
    IN  IF r = Raised THEN None ELSE r

----------------------------------------------------------------------------
(* The "Convert to BED" handler *)

Assemblies == {"hg19", "hg38"}

\* raw lines the user types: a single position without prefix, a range with
\* prefix, a whitespace-only line, free text, a coordinate followed by other
\* characters
BatchLines ==
    { <<"1", ":", "5">>,
      <<"c", "h", "r", "X", ":", "3", "-", "7">>,
      <<" ">>,
      <<"b", "a", "d">>,
      <<"2", ":", "5", "-", "x">> }

Texts ==
    { join(ls, "\n") : ls \in UNION { [1..n -> BatchLines] : n \in 1..MaxLines } }

Init ==
    /\ input_assembly \in Assemblies
    /\ output_assembly \in Assemblies
    /\ perform_liftover \in BOOLEAN
    /\ input_text \in Texts
    /\ pc = "idle"
    /\ lines = <<>>
    /\ idx = 1
    /\ bed_entries = <<>>
    /\ failed_lines = <<>>
    /\ liftover_failed = <<>>
    /\ outcome = <<>>
    /\ calls = <<>>
    /\ IdleParse
    /\ IdleClient

\* lines 97-104: the button is pressed
ClickConvert ==
    /\ pc = "idle"
    /\ IF strip(input_text) = <<>>
       THEN /\ pc' = "warned"
            /\ UNCHANGED <<lines, idx, bed_entries, failed_lines, liftover_failed>>
       ELSE /\ pc' = "loop"
            /\ lines' = split(strip(input_text), "\n")
            /\ idx' = 1
            /\ bed_entries' = <<>>
            /\ failed_lines' = <<>>
            /\ liftover_failed' = <<>>
    /\ UNCHANGED <<input_assembly, output_assembly, perform_liftover, input_text,
                   outcome, calls>>
    /\ UNCHANGED parseVars
    /\ UNCHANGED clientVars

\* mutant: the toggle alone decides
LiftoverRequestedToggleOnly == perform_liftover

\* line 117: perform_liftover and input_assembly != output_assembly
LiftoverRequested == perform_liftover /\ input_assembly # output_assembly

\* an exception reaches the handler: the script run ends
Abort ==
    /\ pc' = "aborted"
    /\ UNCHANGED <<idx, bed_entries, failed_lines, liftover_failed, outcome>>

\* lines 110-112
OnParseFailure(line) ==
    /\ failed_lines' = Append(failed_lines, FailedEntry(idx, line))
    /\ outcome' = Append(outcome, [ state |-> "ParseFailed", interval |-> None ])
    /\ idx' = idx + 1
    /\ UNCHANGED <<pc, bed_entries, liftover_failed>>

\* mutant: no `continue`, the line falls through to the BED output
OnLiftoverFailureFallThrough(line, chrom, start, end) ==
    /\ liftover_failed' =
           Append(liftover_failed, LiftoverFailedEntry(idx, line, chrom, start, end))
    /\ bed_entries' = Append(bed_entries, BedEntry(chrom, start, end))
    /\ outcome' = Append(outcome, [ state |-> "LiftoverFailed",
                                    interval |-> << chrom, start, end >> ])
    /\ idx' = idx + 1
    /\ UNCHANGED <<pc, failed_lines>>

\* lines 121-123
OnLiftoverFailure(line, chrom, start, end) ==
    /\ liftover_failed' =
           Append(liftover_failed, LiftoverFailedEntry(idx, line, chrom, start, end))
    /\ outcome' = Append(outcome, [ state |-> "LiftoverFailed",
                                    interval |-> << chrom, start, end >> ])
    /\ idx' = idx + 1
    /\ UNCHANGED <<pc, bed_entries, failed_lines>>

\* mutant: the entry is put at the front of the list
OnConvertedPrepend(chrom, start, end) ==
    /\ bed_entries' = << BedEntry(chrom, start, end) >> \o bed_entries
    /\ outcome' = Append(outcome, [ state |-> "Converted",
                                    interval |-> << chrom, start, end >> ])
    /\ idx' = idx + 1
    /\ UNCHANGED <<pc, failed_lines, liftover_failed>>

\* line 125
OnConverted(chrom, start, end) ==
    /\ bed_entries' = Append(bed_entries, BedEntry(chrom, start, end))
    /\ outcome' = Append(outcome, [ state |-> "Converted",
                                    interval |-> << chrom, start, end >> ])
    /\ idx' = idx + 1
    /\ UNCHANGED <<pc, failed_lines, liftover_failed>>

\* lines 107-125: one iteration of the loop
ProcessLine ==
    /\ pc = "loop"
    /\ idx <= Len(lines)
    /\ LET line == lines[idx]
           parsed == parse_position(line)
       IN  IF parsed = None
           THEN /\ OnParseFailure(line)
                /\ UNCHANGED calls
           ELSE
             LET chrom == parsed[1]
                 start == JInt(parsed[2])
                 end == JInt(parsed[3])
             IN  IF LiftoverRequested
                 THEN \E response \in Responses :
                        LET lifted == liftover_pyliftover(chrom, start, end,
                                          input_assembly, output_assembly, response)
                        IN  /\ calls' = Append(calls,
                                 [ line_no |-> idx,
                                   request |-> Request(chrom, start, end,
                                                       input_assembly, output_assembly),
                                   result  |-> lifted ])
                            /\ IF lifted = Raised THEN Abort
                               ELSE IF lifted # None
                               THEN OnConverted(lifted[1], lifted[2], lifted[3])
                               ELSE OnLiftoverFailure(line, chrom, start, end)
                 ELSE /\ OnConverted(chrom, start, end)
                      /\ UNCHANGED calls
    /\ UNCHANGED <<input_assembly, output_assembly, perform_liftover, input_text, lines>>
    /\ UNCHANGED parseVars
    /\ UNCHANGED clientVars

\* lines 127-153: the loop is over, the results are displayed
Finish ==
    /\ pc = "loop"
    /\ idx > Len(lines)
    /\ pc' = "done"
    /\ UNCHANGED <<input_assembly, output_assembly, perform_liftover, input_text,
                   lines, idx, bed_entries, failed_lines, liftover_failed,
                   outcome, calls>>
    /\ UNCHANGED parseVars
    /\ UNCHANGED clientVars

Next == ClickConvert \/ ProcessLine \/ Finish

Spec == Init /\ [][Next]_vars

\* the guards of ProcessLine: every branch of the loop body defines a next
\* state, so the action is enabled exactly when they hold
ProcessLineEnabled == pc = "loop" /\ idx <= Len(lines)

\* The script runs the loop to its end without waiting for anything: weak
\* fairness of ProcessLine, written out with its enabling condition, and of
\* Finish.  The press of the button is the user's and has no fairness.
FairSpec ==
    /\ Spec
    /\ []<>(~ProcessLineEnabled) \/ []<><<ProcessLine>>_vars
    /\ WF_vars(Finish)

----------------------------------------------------------------------------
(* Stand-alone calls of liftover_pyliftover *)

ClientArgs ==
    { << chrom, JInt(5), JInt(end), from_assembly, to_assembly >> :
        chrom \in { chr \o <<"1">>, chr \o <<"X">> },
        end \in { 6, 9 },
        from_assembly \in Assemblies,
        to_assembly \in Assemblies }

ClientInit ==
    /\ IdleBatch
    /\ IdleParse
    /\ call_args \in ClientArgs
    /\ call_response \in Responses
    /\ call_result = None
    /\ cpc = "in"

Call ==
    /\ cpc = "in"
    /\ LET r == liftover_pyliftover(call_args[1], call_args[2], call_args[3],
                                    call_args[4], call_args[5], call_response)
       IN  /\ call_result' = r
           /\ cpc' = IF r = Raised THEN "raised" ELSE "out"
    /\ UNCHANGED <<call_args, call_response>>
    /\ UNCHANGED batchVars
    /\ UNCHANGED parseVars

ClientNext == Call

ClientSpec == ClientInit /\ [][ClientNext]_vars

----------------------------------------------------------------------------
(* The claims *)

IsBlank(line) == strip(line) = <<>>

\* liftover is requested: the toggle is on and the assemblies differ
Requested == perform_liftover /\ input_assembly # output_assembly

\* chromosome<TAB>start<TAB>end of a triple of plain integers
TabSerialized(p) ==
    p[1] \o <<"\t">> \o IntToStr(p[2]) \o <<"\t">> \o IntToStr(p[3])

\* the serialized parse results of the lines that parse, in input order
RECURSIVE ParsedBed(_)
ParsedBed(ls) ==
    IF ls = <<>> THEN <<>>
    ELSE LET p == parse_position(Head(ls))
         IN  (IF p = None THEN <<>> ELSE << TabSerialized(p) >>) \o ParsedBed(Tail(ls))

\* the lines processed so far
Processed == SubSeq(lines, 1, idx - 1)

\* the recorded call made for line i
CallOf(i) == CHOOSE c \in Range(calls) : c.line_no = i

AllCallsFailed == \A k \in DOMAIN calls : calls[k].result = None

(* C1: a line that is empty or whitespace-only after trimming is skipped   *)
(* silently: at the end of a batch it has no entry in the parse-failure    *)
(* list, and the three lists together hold one entry per non-blank line.   *)
C1_BlankLinesSkipped ==
    pc = "done" =>
        /\ \A i \in DOMAIN lines :
             IsBlank(lines[i]) => FailedEntry(i, lines[i]) \notin Range(failed_lines)
        /\ Len(bed_entries) + Len(failed_lines) + Len(liftover_failed)
             = Cardinality({ i \in DOMAIN lines : ~IsBlank(lines[i]) })

(* C2: when the input assembly equals the output assembly, with the toggle *)
(* on or off, liftover_pyliftover is never called and the BED lines are    *)
(* the tab-serialized parse_position results of the lines, in order.       *)
C2_SameAssemblyNoLiftover ==
    input_assembly = output_assembly =>
        /\ calls = <<>>
        /\ pc \in {"loop", "done"} => bed_entries = ParsedBed(Processed)

C2_Witness ==
    /\ pc = "done"
    /\ input_assembly = output_assembly
    /\ perform_liftover
    /\ Len(bed_entries) >= 2
    /\ failed_lines # <<>>

\* "Line i: text (chrom:start-end)" for each line from i on that parses
RECURSIVE ParsedFailures(_)
ParsedFailures(i) ==
    IF i > Len(lines) THEN <<>>
    ELSE LET p == parse_position(lines[i])
             number == <<"L", "i", "n", "e", " ">> \o IntToStr(i) \o <<":", " ">>
             interval == <<" ", "(">> \o p[1] \o <<":">> \o IntToStr(p[2])
                           \o <<"-">> \o IntToStr(p[3]) \o <<")">>
         IN  (IF p = None THEN <<>> ELSE << number \o lines[i] \o interval >>)
               \o ParsedFailures(i + 1)

(* C3: when liftover is requested and every call of the client fails, at   *)
(* the end of the batch the BED output is empty and the liftover-failure   *)
(* list holds, for every line that parses, its line number, its original   *)
(* text and the interval parsed from it.                                   *)
C3_AllLiftoverFails ==
    (pc = "done" /\ Requested /\ AllCallsFailed) =>
        /\ bed_entries = <<>>
        /\ liftover_failed = ParsedFailures(1)

C3_Witness ==
    /\ pc = "done"
    /\ Requested
    /\ AllCallsFailed
    /\ Len(calls) >= 2
    /\ failed_lines # <<>>

\* the BED lines owed to the lines from i on: one for each line that parses
\* and whose liftover, when requested, returned an interval
RECURSIVE ConvertedBed(_)
ConvertedBed(i) ==
    IF i > Len(lines) THEN <<>>
    ELSE LET p == parse_position(lines[i])
             t == IF p = None THEN None
                  ELSE IF Requested THEN CallOf(i).result
                  ELSE << p[1], JInt(p[2]), JInt(p[3]) >>
         IN  (IF t = None THEN <<>>
              ELSE << t[1] \o <<"\t">> \o PyStr(t[2]) \o <<"\t">> \o PyStr(t[3]) >>)
               \o ConvertedBed(i + 1)

(* C4: after a batch the BED output is exactly the serialized intervals of *)
(* the converted lines in input order: a line reported as a parse failure  *)
(* or a liftover failure has no BED entry, a converted line has one.       *)
C4_BedIsConvertedInOrder ==
    pc = "done" =>
        /\ bed_entries = ConvertedBed(1)
        /\ Len(bed_entries) = Len(lines) - Len(failed_lines) - Len(liftover_failed)

C4_Witness ==
    /\ pc = "done"
    /\ Requested
    /\ Len(bed_entries) = 2
    /\ bed_entries[1] # bed_entries[2]
    /\ liftover_failed # <<>>

\* every line has left the loop body by exactly one branch, and every
\* failure is in its list
AllLinesTerminal ==
    /\ Len(outcome) = Len(lines)
    /\ Len(bed_entries) + Len(failed_lines) + Len(liftover_failed) = Len(lines)
    /\ \A i \in DOMAIN lines :
         /\ outcome[i].state \in {"Converted", "ParseFailed", "LiftoverFailed"}
         /\ outcome[i].state = "ParseFailed"
              <=> FailedEntry(i, lines[i]) \in Range(failed_lines)
         /\ outcome[i].state = "LiftoverFailed"
              <=> \E e \in Range(liftover_failed) :
                     startswith(e, FailedEntry(i, lines[i]) \o <<" ", "(">>)
         /\ parse_position(lines[i]) = None => outcome[i].state = "ParseFailed"

(* C5: a batch always runs to completion: once the loop is entered the     *)
(* results are displayed, whatever lines fail, and then every line has     *)
(* ended in exactly one terminal state and every failure is reported.      *)
C5_BatchCompletes ==
    /\ (pc = "loop") ~> (pc = "done")
    /\ [](pc = "done" => AllLinesTerminal)

C5_Witness ==
    /\ pc = "done"
    /\ Len(lines) >= 3
    /\ bed_entries = <<>>
    /\ outcome[1].state = "ParseFailed"
    /\ outcome[2].state = "LiftoverFailed"

\* the body is JSON of the shape the client reads: a non-empty mapping list
\* whose first mapping has a "mapped" object with the three fields
FirstMappingReadable(response) ==
    /\ response.kind = "http"
    /\ response.json_ok
    /\ "mappings" \in DOMAIN response.data
    /\ response.data.mappings # <<>>
    /\ "mapped" \in DOMAIN response.data.mappings[1]
    /\ {"seq_region_name", "start", "end"}
         \subseteq DOMAIN response.data.mappings[1].mapped

\* ... and the coordinates of that mapping are integers
FirstMappingWellFormed(response) ==
    /\ FirstMappingReadable(response)
    /\ "int" \in DOMAIN response.data.mappings[1].mapped.start
    /\ "int" \in DOMAIN response.data.mappings[1].mapped.end

\* the failure modes: timeout or network error, a status other than 200, a
\* missing or empty mapping list, a body not of the expected form
IsFailureMode(response) ==
    \/ response.kind # "http"
    \/ response.status_code # 200
    \/ ~FirstMappingWellFormed(response)

(* C6: the liftover client never raises across its boundary, and for every *)
(* failure mode of the remote call (non-success status, missing or empty   *)
(* mapping list, malformed body, timeout, network error) it returns the    *)
(* single failure outcome.                                                 *)
C6_FailuresCollapse ==
    cpc # "in" =>
        /\ cpc = "out"
        /\ IsFailureMode(call_response) => call_result = None

\* the parts of a normalized line: the chromosome token, the two numbers
WholeLineForm(line) ==
    /\ startswith(line, chr)
    /\ LET n1 == Span(line, 4, ChromChar)
           n2 == Span(line, 5 + n1, Digit)
           n3 == Span(line, 6 + n1 + n2, Digit)
       IN  /\ n1 > 0
           /\ 4 + n1 <= Len(line)
           /\ line[4 + n1] = ":"
           /\ n2 > 0
           /\ \/ Len(line) = 4 + n1 + n2
              \/ /\ 5 + n1 + n2 <= Len(line)
                 /\ line[5 + n1 + n2] = "-"
                 /\ n3 > 0
                 /\ Len(line) = 5 + n1 + n2 + n3

\* the trimmed line with the prefix it is given when it has none
Prefixed(line) ==
    IF startswith(strip(line), chr) THEN strip(line) ELSE chr \o strip(line)

(* C7: every interval the parser returns, range form or single-position    *)
(* form, satisfies start < end.                                            *)
C7_StartBeforeEnd ==
    (ppc = "out" /\ presult # None) => presult[2] < presult[3]

(* C7 as amended: the single-position form satisfies end = start + 1; the  *)
(* range form returns the two typed numbers as they are, so start < end    *)
(* holds of it exactly when the first typed number is below the second.    *)
C7_SingleFormOrdered ==
    (ppc = "out" /\ presult # None) =>
        LET colon == 4 + Span(pnorm, 4, ChromChar)
            n2 == Span(pnorm, colon + 1, Digit)
            first == int(SubSeq(pnorm, colon + 1, colon + n2))
            n3 == Span(pnorm, colon + n2 + 2, Digit)
            second == int(SubSeq(pnorm, colon + n2 + 2, colon + n2 + 1 + n3))
            range == /\ colon + n2 + 1 <= Len(pnorm)
                     /\ pnorm[colon + n2 + 1] = "-"
                     /\ n3 > 0
        IN  /\ presult[2] = first
            /\ IF range THEN presult[3] = second ELSE presult[3] = first + 1
            /\ ~range => presult[2] < presult[3]
            /\ range => (presult[2] < presult[3] <=> first < second)

C7_Witness ==
    /\ ppc = "out"
    /\ presult # None
    /\ presult[2] > presult[3]

(* C8: the parser returns an interval only when the whole trimmed,         *)
(* chr-prefixed line is chr<token>:<digits>-<digits> or                    *)
(* chr<token>:<digits>; every other non-blank line is a parse failure      *)
(* reported with its 1-based number and its text, and has no BED entry.    *)
C8_WholeLineOrFailure ==
    pc = "done" =>
        \A i \in DOMAIN lines :
            ~IsBlank(lines[i]) =>
                IF WholeLineForm(Prefixed(lines[i]))
                THEN parse_position(lines[i]) # None
                ELSE /\ parse_position(lines[i]) = None
                     /\ FailedEntry(i, lines[i]) \in Range(failed_lines)
                     /\ outcome[i].state = "ParseFailed"

(* C9: prefix normalization is idempotent: a line whose trimmed text does  *)
(* not start with 'chr' parses to what 'chr' + the trimmed text parses to, *)
(* and a line that starts with 'chr' is given no second prefix.            *)
C9_PrefixIdempotent ==
    ppc = "out" =>
        IF startswith(strip(pline), chr)
        THEN pnorm = strip(pline)
        ELSE /\ presult = parse_position(chr \o strip(pline))
             /\ IsBlank(pline) \/ pnorm = chr \o strip(pline)

C9_Witness ==
    /\ ppc = "out"
    /\ ~startswith(strip(pline), chr)
    /\ presult # None
    /\ strip(pline) # pline

====
